---- MODULE Spec2Model ----
(***************************************************************************)
(* Model of oh-my-logo's Japanese renderer (src/src/japanese-renderer.ts)  *)
(* and of the ink block builder (src/unnamed/part_000).                    *)
(*                                                                         *)
(* A JavaScript string is a sequence of UTF-16 code units (naturals).  The *)
(* source file spells U+2588 FULL BLOCK as the three characters of its     *)
(* UTF-8 bytes read in a Mac code page; it is INK here, one code unit.     *)
(* The program is single-shot: the module loads the font, then one entry   *)
(* point runs.                                                             *)
(***************************************************************************)
EXTENDS Integers, Sequences, FiniteSets, TLC

VARIABLES
  pc,               \* "load" (module not yet evaluated), "ready", "done"
  fontFile,         \* which fonts/jiskan16.flf is on disk ("missing": the read fails)
  jisFontData,      \* let jisFontData: string | null (None, or Some(resource read))
  jisCharacterMap,  \* let jisCharacterMap: Map<string, string>
  op,               \* entry point that ran: "none", "render", "resolve", "detect", "block"
  text,             \* the text (or the single character) given to the entry point
  palette,          \* palette argument of renderJapaneseText
  direction,        \* direction argument of renderJapaneseText
  lib,              \* behaviour of jconv / encoding-japanese / string-width this run
  out               \* what the entry point returned (or that it threw)

vars == <<pc, fontFile, jisFontData, jisCharacterMap, op, text, palette, direction, lib, out>>

----------------------------------------------------------------------------
(* Bounds of the model *)

MaxTextLen == 2
MaxUnits == 3
MaxPalette == 3
MaxCharWidth == 3

----------------------------------------------------------------------------
(* Code units the program names *)

NL == 10
SP == 32
HASH == 35
DOLLAR == 36
AT == 64
INK == 9608
JisMinLen == 5
SjisMinLen == 2
HexPad == 4
scale == 5
MinBlockWidth == 6
WidthFactor == 3

None == <<>>
Some(x) == <<x>>

----------------------------------------------------------------------------
(* String primitives of the language *)

Max2(a, b) == IF a >= b THEN a ELSE b

RECURSIVE MaxOf(_)
MaxOf(s) == IF s = <<>> THEN 0 ELSE Max2(Head(s), MaxOf(Tail(s)))

RECURSIVE Concat(_)
Concat(ss) == IF ss = <<>> THEN <<>> ELSE Head(ss) \o Concat(Tail(ss))

repeat(u, n) == [k \in 1..n |-> u]

\* Array.prototype.join(sep)
RECURSIVE join(_, _)
join(ss, sep) ==
  IF ss = <<>> THEN <<>>
  ELSE IF Len(ss) = 1 THEN ss[1]
  ELSE ss[1] \o sep \o join(Tail(ss), sep)

\* String.prototype.split(sep) for a one-unit separator: never empty
RECURSIVE split(_, _)
split(s, sep) ==
  IF \E k \in 1..Len(s) : s[k] = sep
  THEN LET k == CHOOSE k \in 1..Len(s) : s[k] = sep /\ \A j \in 1..(k-1) : s[j] # sep
       IN  <<SubSeq(s, 1, k-1)>> \o split(SubSeq(s, k+1, Len(s)), sep)
  ELSE <<s>>

\* first index at which pat occurs in s, 0 when it does not
indexOf(s, pat) ==
  LET hits == {k \in 1..(Len(s) - Len(pat) + 1) : SubSeq(s, k, k + Len(pat) - 1) = pat}
  IN  IF hits = {} THEN 0 ELSE CHOOSE k \in hits : \A j \in hits : k <= j

includes(s, pat) == indexOf(s, pat) # 0

\* String.prototype.replace(pat, '') with a string pattern: the first occurrence only
removeFirst(s, pat) ==
  LET k == indexOf(s, pat)
  IN  IF k = 0 THEN s ELSE SubSeq(s, 1, k-1) \o SubSeq(s, k + Len(pat), Len(s))

\* line.replace(/#/g, INK)
replaceAllHash(s) == [k \in 1..Len(s) |-> IF s[k] = HASH THEN INK ELSE s[k]]

\* WhiteSpace and LineTerminator code units, as trim() and \s see them
IsWhitespace(u) ==
  u \in {9, 10, 11, 12, 13, 32, 160, 5760, 8232, 8233, 8239, 8287, 12288, 65279}
  \/ (u >= 8192 /\ u <= 8202)

RECURSIVE trimStart(_)
trimStart(s) == IF s # <<>> /\ IsWhitespace(Head(s)) THEN trimStart(Tail(s)) ELSE s

RECURSIVE trimEnd(_)
trimEnd(s) ==
  IF s # <<>> /\ IsWhitespace(s[Len(s)]) THEN trimEnd(SubSeq(s, 1, Len(s) - 1)) ELSE s

trim(s) == trimEnd(trimStart(s))

IsDigit(u) == u >= 48 /\ u <= 57
IsHexDigit(u) == IsDigit(u) \/ (u >= 97 /\ u <= 102) \/ (u >= 65 /\ u <= 70)

toLowerCase(s) == [k \in 1..Len(s) |-> IF s[k] >= 65 /\ s[k] <= 90 THEN s[k] + 32 ELSE s[k]]

\* Number.prototype.toString(16)
RECURSIVE toString16(_)
toString16(n) ==
  LET d == n % 16
      c == IF d < 10 THEN 48 + d ELSE 87 + d
  IN  IF n < 16 THEN <<c>> ELSE toString16(n \div 16) \o <<c>>

padStart(s, n, u) == IF Len(s) >= n THEN s ELSE repeat(u, n - Len(s)) \o s

IsHighSurrogate(u) == u >= 55296 /\ u <= 56319
IsLowSurrogate(u) == u >= 56320 /\ u <= 57343

\* Array.from(text): the string iterator yields one string per code point, a
\* surrogate pair together and a lone surrogate alone
RECURSIVE ArrayFrom(_)
ArrayFrom(s) ==
  IF s = <<>> THEN <<>>
  ELSE IF Len(s) >= 2 /\ IsHighSurrogate(s[1]) /\ IsLowSurrogate(s[2])
       THEN <<SubSeq(s, 1, 2)>> \o ArrayFrom(SubSeq(s, 3, Len(s)))
       ELSE <<SubSeq(s, 1, 1)>> \o ArrayFrom(Tail(s))

charCodeAt0(ch) == ch[1]

----------------------------------------------------------------------------
(* Glyph font store: parseJisFontData and the module's load block *)

EmptyMap == [k \in {} |-> <<>>]

MapSet(m, key, v) == [k \in (DOMAIN m) \cup {key} |-> IF k = key THEN v ELSE m[k]]

\* line.match(/^\d+ [0-9a-fA-F]+$/)
matchHeader(line) ==
  \E k \in 2..(Len(line) - 1) :
    /\ line[k] = SP
    /\ \A j \in 1..(k-1) : IsDigit(line[j])
    /\ \A j \in (k+1)..Len(line) : IsHexDigit(line[j])

\* match[2] of a line that matches
matchHex(line) ==
  LET k == CHOOSE k \in 2..(Len(line) - 1) : line[k] = SP
  IN  SubSeq(line, k + 1, Len(line))

\* "Skip header and comments": the first index whose line has the header shape
RECURSIVE skipHeader(_, _)
skipHeader(lines, i) ==
  IF i <= Len(lines) /\ ~matchHeader(lines[i]) THEN skipHeader(lines, i + 1) ELSE i

\* "Read glyph data until we hit the end marker": the index the loop stops at and
\* the rows gathered
RECURSIVE readGlyph(_, _, _)
readGlyph(lines, i, glyphLines) ==
  IF i > Len(lines) THEN [i |-> i, glyphLines |-> glyphLines]
  ELSE LET glyphLine == lines[i]
       IN  IF includes(glyphLine, <<AT, AT>>)
           THEN [i |-> i,
                 glyphLines |-> Append(glyphLines, removeFirst(glyphLine, <<DOLLAR, AT, AT>>))]
           ELSE IF includes(glyphLine, <<DOLLAR, AT>>)
           THEN readGlyph(lines, i + 1, Append(glyphLines, removeFirst(glyphLine, <<DOLLAR, AT>>)))
           ELSE readGlyph(lines, i + 1, glyphLines)

\* "Parse character entries"
RECURSIVE parseEntries(_, _, _)
parseEntries(lines, i, map) ==
  IF i > Len(lines) THEN map
  ELSE LET line == trim(lines[i])
       IN  IF matchHeader(line)
           THEN LET hexCode == toLowerCase(matchHex(line))
                    r == readGlyph(lines, i + 1, <<>>)
                    convertedGlyph ==
                      join([k \in 1..Len(r.glyphLines) |-> replaceAllHash(r.glyphLines[k])], <<NL>>)
                IN  parseEntries(lines, r.i + 1,
                      IF Len(r.glyphLines) > 0 THEN MapSet(map, hexCode, convertedGlyph) ELSE map)
           ELSE parseEntries(lines, i + 1, map)

parseJisFontData(fontData) ==
  LET lines == split(fontData, NL)
  IN  parseEntries(lines, skipHeader(lines, 1), EmptyMap)

----------------------------------------------------------------------------
(* Font resources the program may find on disk *)

\* Number.prototype.toString(10), for the decimal code of a header line
RECURSIVE Dec(_)
Dec(n) == IF n < 10 THEN <<48 + n>> ELSE Dec(n \div 10) \o <<48 + (n % 10)>>

FontHeaderLines == << <<102, 108, 102, 50, 97, DOLLAR, SP, 49, 54>>, <<74, 73, 83>> >>

\* one table entry: header "<decimal> <hex>", rows ending $@, last row ending $@@
FontEntry(code, rows) ==
  <<Dec(code) \o <<SP>> \o toString16(code)>>
  \o [k \in 1..Len(rows) |->
        rows[k] \o (IF k = Len(rows) THEN <<DOLLAR, AT, AT>> ELSE <<DOLLAR, AT>>)]

\* a glyph of h rows and w columns: blank first and last rows, a frame between
FontRows(h, w) ==
  [r \in 1..h |->
     IF r = 1 \/ (r = h /\ h > 2) THEN repeat(SP, w)
     ELSE [c \in 1..w |-> IF c = 1 \/ c = w \/ r = 2 THEN HASH ELSE SP]]

FontText(entries) == join(FontHeaderLines \o Concat(entries), <<NL>>) \o <<NL>>

\* JIS X 0208 keys, 16-row glyphs (the shape of jiskan16)
FontJis16 == FontText(<<FontEntry(9250, FontRows(16, 4)), FontEntry(18044, FontRows(16, 4))>>)
\* JIS X 0208 keys, glyphs lower than the placeholder patterns
FontJisLow == FontText(<<FontEntry(9250, FontRows(3, 4)), FontEntry(18044, FontRows(3, 5))>>)
\* glyphs of unequal height
FontJisMixed == FontText(<<FontEntry(9250, FontRows(16, 4)), FontEntry(18044, FontRows(4, 3))>>)
\* Shift-JIS keys
FontSjis == FontText(<<FontEntry(33440, FontRows(12, 4))>>)
\* a resource with no table entry
FontNoTable == FontText(<<>>)

\* an entry whose header carries the hex code as written, not as toString16 gives it
FontEntryAs(code, hex, rows) ==
  <<Dec(code) \o <<SP>> \o hex>> \o Tail(FontEntry(code, rows))

\* an entry with no end-marker row: every row ends $@
FontEntryOpen(code, rows) ==
  <<Dec(code) \o <<SP>> \o toString16(code)>>
  \o [k \in 1..Len(rows) |-> rows[k] \o <<DOLLAR, AT>>]

\* an entry one of whose rows, the second, carries no marker
FontEntryBareRow(code, rows) ==
  LET e == FontEntry(code, rows)
  IN  SubSeq(e, 1, 2) \o <<rows[2]>> \o SubSeq(e, 4, Len(e))

\* glyphs of a single row
FontJisOne ==
  FontText(<<FontEntry(9250, <<repeat(HASH, 3)>>), FontEntry(18044, <<repeat(HASH, 4)>>)>>)
\* an entry with no end-marker row, a complete entry after it
FontNoEnd ==
  FontText(<<FontEntryOpen(9250, FontRows(3, 4)), FontEntry(18044, FontRows(4, 3))>>)
\* an entry with a row that carries no marker, a complete entry after it
FontBareRow ==
  FontText(<<FontEntryBareRow(9250, FontRows(4, 4)), FontEntry(18044, FontRows(4, 3))>>)
\* header hex codes in upper case ("82A0") and with a leading zero ("02422")
FontRawHex ==
  FontText(<<FontEntryAs(33440, <<56, 50, 65, 48>>, FontRows(12, 4)),
             FontEntryAs(9250, <<48, 50, 52, 50, 50>>, FontRows(12, 4))>>)

FontFiles ==
  {"missing", "jis16", "jisLow", "jisMixed", "sjis", "noTable",
   "jisOne", "noEnd", "bareRow", "rawHex"}

\* readFileSync(fontPath, 'utf8'): None when the read throws
readFileSync(f) ==
  IF f = "missing" THEN None
  ELSE IF f = "jis16" THEN Some(FontJis16)
  ELSE IF f = "jisLow" THEN Some(FontJisLow)
  ELSE IF f = "jisMixed" THEN Some(FontJisMixed)
  ELSE IF f = "sjis" THEN Some(FontSjis)
  ELSE IF f = "jisOne" THEN Some(FontJisOne)
  ELSE IF f = "noEnd" THEN Some(FontNoEnd)
  ELSE IF f = "bareRow" THEN Some(FontBareRow)
  ELSE IF f = "rawHex" THEN Some(FontRawHex)
  ELSE Some(FontNoTable)

\* !jisFontData: null, or the empty string.  jisFontData holds the name of the
\* resource whose text was read.
isFalsy(fontData) == fontData = None \/ readFileSync(fontData[1]) = Some(<<>>)

\* module evaluation, lines 16-25: read the resource and parse it; a failed read
\* leaves jisFontData null and the map empty
LoadFont ==
  /\ pc = "load"
  /\ pc' = "ready"
  /\ IF readFileSync(fontFile) = None
     THEN /\ jisFontData' = None
          /\ jisCharacterMap' = EmptyMap
     ELSE /\ jisFontData' = Some(fontFile)
          /\ jisCharacterMap' = parseJisFontData(readFileSync(fontFile)[1])
  /\ UNCHANGED <<fontFile, op, text, palette, direction, lib, out>>

----------------------------------------------------------------------------
(* The conversion libraries (jconv, encoding-japanese) and string-width are    *)
(* not part of the repository.  A call either throws or returns bytes; what   *)
(* it does this run is the value of lib, handed down as l.                     *)

Schemes == 1..4   \* 1 jconv 'JIS', 2 jconv 'SJIS', 3 Encoding 'JISX0208', 4 Encoding 'SJIS'

Threw == [threw |-> TRUE, bytes |-> <<>>]
Returned(b) == [threw |-> FALSE, bytes |-> b]

\* ESC $ B b1 b2 ESC ( B
JisFramed(b1, b2) == <<27, 36, 66, b1, b2, 27, 40, 66>>

Hiragana_A == <<12354>>         \* U+3042, in the pattern table
Kanji_Nichi == <<26085>>        \* U+65E5, in the pattern table
Latin_A == <<65>>               \* U+0041, no pattern
Astral == <<55360, 56331>>      \* U+2000B, a surrogate pair, no pattern

Alphabet == {Hiragana_A, Kanji_Nichi, Latin_A, Astral}

\* the bytes a working conversion returns: JIS X 0208 and Shift-JIS codes of the
\* two Japanese characters, one substitute byte for the others
TableBytes(s, ch) ==
  LET jis == IF ch = Hiragana_A THEN <<36, 34>>
             ELSE IF ch = Kanji_Nichi THEN <<70, 124>> ELSE <<63>>
      sjis == IF ch = Hiragana_A THEN <<130, 160>>
              ELSE IF ch = Kanji_Nichi THEN <<147, 250>> ELSE <<63>>
  IN  IF s = 1 THEN (IF Len(jis) = 2 THEN JisFramed(jis[1], jis[2]) ELSE jis)
      ELSE IF s = 3 THEN jis
      ELSE sjis

\* what one scheme does this run: it throws, it returns the same bytes whatever
\* the character ("fixed"), or it converts by the table
Throws == [kind |-> "throw", bytes |-> <<>>]
Fixed(b) == [kind |-> "fixed", bytes |-> b]
Table == [kind |-> "table", bytes |-> <<>>]

\* what one call may do when the resolver is run on its own
SchemeOutcomes(s) ==
  {Throws, Fixed(<<63>>)}
  \cup {Fixed(IF s = 1 THEN JisFramed(b[1], b[2]) ELSE b) : b \in {<<36, 34>>, <<130, 160>>}}

NoWidth == [ch \in Alphabet |-> 1]
NoLib == [conv |-> [s \in Schemes |-> Table], width |-> NoWidth]

\* jconv.encode(char, 'JIS' | 'SJIS'), Encoding.convert(codes, {to, from: 'UNICODE'})
convert(l, s, char) ==
  IF l.conv[s].kind = "throw" THEN Threw
  ELSE IF l.conv[s].kind = "fixed" THEN Returned(l.conv[s].bytes)
  ELSE Returned(TableBytes(s, char))

----------------------------------------------------------------------------
(* Codepoint resolver: unicodeToJisHexCode *)

\* ((b1 << 8) | b2).toString(16).toLowerCase().padStart(4, '0'), bytes in 0..255
hexOf(b1, b2) == padStart(toLowerCase(toString16(b1 * 256 + b2)), HexPad, 48)

has(map, key) == key \in DOMAIN map

\* the loop over conversions = ['JISX0208', 'SJIS'], each in its own try/catch
RECURSIVE tryConversions(_, _, _, _)
tryConversions(l, map, char, s) ==
  IF s > 4 THEN None
  ELSE LET r == convert(l, s, char)
           hexCode == hexOf(r.bytes[1], r.bytes[2])
       IN  IF ~r.threw /\ Len(r.bytes) >= 2 /\ has(map, hexCode)
           THEN Some(hexCode)
           ELSE tryConversions(l, map, char, s + 1)

unicodeToJisHexCode(l, map, char) ==
  LET jisBytes == convert(l, 1, char)
      jisHex == hexOf(jisBytes.bytes[4], jisBytes.bytes[5])
      sjisBytes == convert(l, 2, char)
      sjisHex == hexOf(sjisBytes.bytes[1], sjisBytes.bytes[2])
  IN  IF jisBytes.threw THEN None                                 \* outer catch
      ELSE IF Len(jisBytes.bytes) >= JisMinLen /\ has(map, jisHex) THEN Some(jisHex)
      ELSE IF sjisBytes.threw THEN None                           \* outer catch
      ELSE IF Len(sjisBytes.bytes) >= SjisMinLen /\ has(map, sjisHex) THEN Some(sjisHex)
      ELSE tryConversions(l, map, char, 3)

\* renderJisCharacter: null, or the glyph string of the resolved codepoint
renderJisCharacter(l, fontData, map, char) ==
  IF isFalsy(fontData) \/ DOMAIN map = {} THEN None
  ELSE LET jisHexCode == unicodeToJisHexCode(l, map, char)
       IN  IF jisHexCode = None THEN None
           ELSE IF map[jisHexCode[1]] = <<>> THEN None
           ELSE Some(map[jisHexCode[1]])

----------------------------------------------------------------------------
(* Placeholder pattern library: getJapaneseCharPattern *)

\* a pattern row as written in the table: 1 is the full block, 0 a space
R(bits) == [k \in 1..Len(bits) |-> IF bits[k] = 1 THEN INK ELSE SP]

patterns ==
     (<<12354>> :> <<   \* U+3042
       R(<<0,0,1,1,1,1,1,1,1,1,0,0>>),
       R(<<0,1,0,0,0,0,0,0,0,0,1,0>>),
       R(<<1,0,0,0,1,1,1,1,0,0,0,1>>),
       R(<<1,0,0,1,0,0,0,0,1,0,0,1>>),
       R(<<1,0,0,1,0,1,1,1,1,0,0,1>>),
       R(<<1,0,0,1,0,1,0,0,1,0,0,1>>),
       R(<<1,0,0,1,0,1,1,1,1,0,0,1>>),
       R(<<1,0,0,0,0,0,0,0,0,0,0,1>>),
       R(<<0,1,0,0,0,0,0,0,0,0,1,0>>),
       R(<<0,0,1,1,1,1,1,1,1,1,0,0>>) >>)
  @@ (<<12356>> :> <<   \* U+3044
       R(<<0,0,1,1,1,1,1,1,1,1,0,0>>),
       R(<<0,1,0,0,0,0,0,0,0,0,1,0>>),
       R(<<1,0,0,0,0,1,1,0,0,0,0,1>>),
       R(<<1,0,0,0,0,1,1,0,0,0,0,1>>),
       R(<<1,0,0,0,0,1,1,0,0,0,0,1>>),
       R(<<1,0,0,1,1,1,1,1,1,0,0,1>>),
       R(<<1,0,0,1,1,0,0,1,1,0,0,1>>),
       R(<<1,0,0,0,0,1,1,0,0,0,0,1>>),
       R(<<0,1,0,0,0,0,0,0,0,0,1,0>>),
       R(<<0,0,1,1,1,1,1,1,1,1,0,0>>) >>)
  @@ (<<12358>> :> <<   \* U+3046
       R(<<0,0,1,1,1,1,1,1,1,1,0,0>>),
       R(<<0,1,0,0,0,0,0,0,0,0,1,0>>),
       R(<<1,0,0,1,1,1,1,1,1,0,0,1>>),
       R(<<1,0,0,0,0,1,1,0,0,0,0,1>>),
       R(<<1,0,0,0,0,1,1,0,0,0,0,1>>),
       R(<<1,0,0,1,1,1,1,1,1,0,0,1>>),
       R(<<1,0,0,1,1,0,0,1,1,0,0,1>>),
       R(<<1,0,0,1,1,1,1,1,1,0,0,1>>),
       R(<<0,1,0,0,0,0,0,0,0,0,1,0>>),
       R(<<0,0,1,1,1,1,1,1,1,1,0,0>>) >>)
  @@ (<<12360>> :> <<   \* U+3048
       R(<<0,0,1,1,1,1,1,1,1,1,0,0>>),
       R(<<0,1,0,0,0,0,0,0,0,0,1,0>>),
       R(<<1,0,1,1,1,1,1,1,1,1,0,1>>),
       R(<<1,0,1,1,0,0,0,0,1,1,0,1>>),
       R(<<1,0,1,1,1,1,1,1,1,1,0,1>>),
       R(<<1,0,1,1,0,0,0,0,1,1,0,1>>),
       R(<<1,0,1,1,1,1,1,1,1,1,0,1>>),
       R(<<1,0,0,0,0,0,0,0,0,0,0,1>>),
       R(<<0,1,0,0,0,0,0,0,0,0,1,0>>),
       R(<<0,0,1,1,1,1,1,1,1,1,0,0>>) >>)
  @@ (<<12362>> :> <<   \* U+304A
       R(<<0,0,1,1,1,1,1,1,1,1,0,0>>),
       R(<<0,1,0,0,0,0,0,0,0,0,1,0>>),
       R(<<1,0,1,1,1,1,1,1,0,1,0,1>>),
       R(<<1,0,1,1,0,0,1,1,0,1,0,1>>),
       R(<<1,0,1,1,1,1,1,1,0,1,0,1>>),
       R(<<1,0,1,1,0,0,0,0,0,1,0,1>>),
       R(<<1,0,1,1,1,1,1,1,1,1,0,1>>),
       R(<<1,0,0,0,0,0,0,0,0,0,0,1>>),
       R(<<0,1,0,0,0,0,0,0,0,0,1,0>>),
       R(<<0,0,1,1,1,1,1,1,1,1,0,0>>) >>)
  @@ (<<12371>> :> <<   \* U+3053
       R(<<0,0,1,1,1,1,1,1,1,1,0,0>>),
       R(<<0,1,0,0,0,0,0,0,0,0,1,0>>),
       R(<<1,0,1,1,1,1,1,1,1,1,0,1>>),
       R(<<1,0,0,0,0,0,0,0,0,0,0,1>>),
       R(<<1,0,0,0,1,1,1,1,0,0,0,1>>),
       R(<<1,0,0,0,0,0,0,0,0,0,0,1>>),
       R(<<1,0,1,1,1,1,1,1,1,1,0,1>>),
       R(<<1,0,0,0,0,0,0,0,0,0,0,1>>),
       R(<<0,1,0,0,0,0,0,0,0,0,1,0>>),
       R(<<0,0,1,1,1,1,1,1,1,1,0,0>>) >>)
  @@ (<<12435>> :> <<   \* U+3093
       R(<<0,0,1,1,1,1,1,1,1,1,0,0>>),
       R(<<0,1,0,0,0,0,0,0,0,0,1,0>>),
       R(<<1,0,0,0,1,1,1,1,0,0,0,1>>),
       R(<<1,0,0,1,0,0,0,0,1,0,0,1>>),
       R(<<1,0,0,1,0,0,0,0,1,0,0,1>>),
       R(<<1,0,0,1,0,1,1,0,1,0,0,1>>),
       R(<<1,0,0,0,1,1,1,1,0,0,0,1>>),
       R(<<1,0,0,0,0,1,1,0,0,0,0,1>>),
       R(<<0,1,0,0,0,0,0,0,0,0,1,0>>),
       R(<<0,0,1,1,1,1,1,1,1,1,0,0>>) >>)
  @@ (<<12395>> :> <<   \* U+306B
       R(<<0,0,1,1,1,1,1,1,1,1,0,0>>),
       R(<<0,1,0,0,0,0,0,0,0,0,1,0>>),
       R(<<1,0,0,0,0,1,1,0,0,0,0,1>>),
       R(<<1,0,0,0,0,1,1,0,0,0,0,1>>),
       R(<<1,0,1,1,1,1,1,1,1,1,0,1>>),
       R(<<1,0,0,0,0,1,1,0,0,0,0,1>>),
       R(<<1,0,0,1,1,1,1,1,1,0,0,1>>),
       R(<<1,0,0,0,0,0,0,0,0,0,0,1>>),
       R(<<0,1,0,0,0,0,0,0,0,0,1,0>>),
       R(<<0,0,1,1,1,1,1,1,1,1,0,0>>) >>)
  @@ (<<12385>> :> <<   \* U+3061
       R(<<0,0,1,1,1,1,1,1,1,1,0,0>>),
       R(<<0,1,0,0,0,0,0,0,0,0,1,0>>),
       R(<<1,0,0,1,1,1,1,1,1,0,0,1>>),
       R(<<1,0,0,0,0,0,1,1,0,0,0,1>>),
       R(<<1,0,0,0,0,0,1,1,0,0,0,1>>),
       R(<<1,0,0,0,1,1,1,1,1,1,0,1>>),
       R(<<1,0,0,0,0,0,1,1,0,0,0,1>>),
       R(<<1,0,0,0,1,1,1,1,1,1,0,1>>),
       R(<<0,1,0,0,0,0,0,0,0,0,1,0>>),
       R(<<0,0,1,1,1,1,1,1,1,1,0,0>>) >>)
  @@ (<<12399>> :> <<   \* U+306F
       R(<<0,0,1,1,1,1,1,1,1,1,0,0>>),
       R(<<0,1,0,0,0,0,0,0,0,0,1,0>>),
       R(<<1,0,1,1,0,0,1,1,0,0,0,1>>),
       R(<<1,0,1,1,0,0,1,1,0,0,0,1>>),
       R(<<1,0,1,1,1,1,1,1,1,1,0,1>>),
       R(<<1,0,1,1,0,0,1,1,0,0,0,1>>),
       R(<<1,0,1,1,0,0,1,1,1,1,0,1>>),
       R(<<1,0,1,1,0,0,0,0,1,1,0,1>>),
       R(<<0,1,0,0,0,0,0,0,0,0,1,0>>),
       R(<<0,0,1,1,1,1,1,1,1,1,0,0>>) >>)
  @@ (<<19990>> :> <<   \* U+4E16
       R(<<0,0,1,1,1,1,1,1,1,1,0,0>>),
       R(<<0,1,0,0,0,0,0,0,0,0,1,0>>),
       R(<<1,0,0,1,1,1,1,1,0,0,0,1>>),
       R(<<1,0,0,1,0,0,0,1,0,0,0,1>>),
       R(<<1,0,1,1,1,1,1,1,1,0,0,1>>),
       R(<<1,0,0,1,0,0,0,1,0,0,0,1>>),
       R(<<1,0,0,1,0,0,0,1,0,0,0,1>>),
       R(<<1,0,1,1,1,1,1,1,1,1,0,1>>),
       R(<<0,1,0,0,0,0,0,0,0,0,1,0>>),
       R(<<0,0,1,1,1,1,1,1,1,1,0,0>>) >>)
  @@ (<<30028>> :> <<   \* U+754C
       R(<<0,0,1,1,1,1,1,1,1,1,0,0>>),
       R(<<0,1,0,0,0,0,0,0,0,0,1,0>>),
       R(<<1,0,1,1,1,1,1,1,1,1,0,1>>),
       R(<<1,0,1,0,0,1,1,0,0,1,0,1>>),
       R(<<1,0,1,0,0,1,1,0,0,1,0,1>>),
       R(<<1,0,1,1,1,1,1,1,1,1,0,1>>),
       R(<<1,0,0,0,0,1,1,0,0,0,0,1>>),
       R(<<1,0,1,1,1,1,1,1,1,1,0,1>>),
       R(<<0,1,0,0,0,0,0,0,0,0,1,0>>),
       R(<<0,0,1,1,1,1,1,1,1,1,0,0>>) >>)
  @@ (<<26085>> :> <<   \* U+65E5
       R(<<0,0,1,1,1,1,1,1,1,1,0,0>>),
       R(<<0,1,0,0,0,0,0,0,0,0,1,0>>),
       R(<<1,0,1,1,1,1,1,1,1,1,0,1>>),
       R(<<1,0,1,1,0,0,0,0,1,1,0,1>>),
       R(<<1,0,1,1,1,1,1,1,1,1,0,1>>),
       R(<<1,0,1,1,0,0,0,0,1,1,0,1>>),
       R(<<1,0,1,1,1,1,1,1,1,1,0,1>>),
       R(<<1,0,0,0,0,0,0,0,0,0,0,1>>),
       R(<<0,1,0,0,0,0,0,0,0,0,1,0>>),
       R(<<0,0,1,1,1,1,1,1,1,1,0,0>>) >>)
  @@ (<<26412>> :> <<   \* U+672C
       R(<<0,0,1,1,1,1,1,1,1,1,0,0>>),
       R(<<0,1,0,0,0,0,0,0,0,0,1,0>>),
       R(<<1,0,0,0,0,1,1,0,0,0,0,1>>),
       R(<<1,0,0,0,0,1,1,0,0,0,0,1>>),
       R(<<1,0,1,1,1,1,1,1,1,1,0,1>>),
       R(<<1,0,0,0,0,1,1,0,0,0,0,1>>),
       R(<<1,0,0,0,1,1,1,1,0,0,0,1>>),
       R(<<1,0,0,1,1,0,0,1,1,0,0,1>>),
       R(<<0,1,0,0,0,0,0,0,0,0,1,0>>),
       R(<<0,0,1,1,1,1,1,1,1,1,0,0>>) >>)
  @@ (<<35486>> :> <<   \* U+8A9E
       R(<<0,0,1,1,1,1,1,1,1,1,0,0>>),
       R(<<0,1,0,0,0,0,0,0,0,0,1,0>>),
       R(<<1,0,1,1,0,1,1,0,1,1,0,1>>),
       R(<<1,0,1,1,0,1,1,0,1,1,0,1>>),
       R(<<1,0,1,1,1,1,1,1,1,1,0,1>>),
       R(<<1,0,1,1,0,0,0,0,1,1,0,1>>),
       R(<<1,0,1,1,1,1,1,1,1,1,0,1>>),
       R(<<1,0,1,1,0,0,0,0,1,1,0,1>>),
       R(<<0,1,0,0,0,0,0,0,0,0,1,0>>),
       R(<<0,0,1,1,1,1,1,1,1,1,0,0>>) >>)
  @@ (<<12398>> :> <<   \* U+306E
       R(<<0,0,1,1,1,1,1,1,1,1,0,0>>),
       R(<<0,1,0,0,0,0,0,0,0,0,1,0>>),
       R(<<1,0,0,0,1,1,1,1,0,0,0,1>>),
       R(<<1,0,0,1,0,0,0,0,1,0,0,1>>),
       R(<<1,0,0,1,0,1,1,0,1,0,0,1>>),
       R(<<1,0,0,1,0,1,1,0,1,0,0,1>>),
       R(<<1,0,0,0,1,1,1,1,0,0,0,1>>),
       R(<<1,0,0,0,0,0,0,0,0,0,0,1>>),
       R(<<0,1,0,0,0,0,0,0,0,0,1,0>>),
       R(<<0,0,1,1,1,1,1,1,1,1,0,0>>) >>)
  @@ (<<12486>> :> <<   \* U+30C6
       R(<<0,0,1,1,1,1,1,1,1,1,0,0>>),
       R(<<0,1,0,0,0,0,0,0,0,0,1,0>>),
       R(<<1,0,1,1,1,1,1,1,1,1,0,1>>),
       R(<<1,0,0,0,0,1,1,0,0,0,0,1>>),
       R(<<1,0,0,0,0,1,1,0,0,0,0,1>>),
       R(<<1,0,0,0,0,1,1,0,0,0,0,1>>),
       R(<<1,0,0,0,0,1,1,0,0,0,0,1>>),
       R(<<1,0,0,0,0,1,1,0,0,0,0,1>>),
       R(<<0,1,0,0,0,0,0,0,0,0,1,0>>),
       R(<<0,0,1,1,1,1,1,1,1,1,0,0>>) >>)
  @@ (<<12473>> :> <<   \* U+30B9
       R(<<0,0,1,1,1,1,1,1,1,1,0,0>>),
       R(<<0,1,0,0,0,0,0,0,0,0,1,0>>),
       R(<<1,0,0,1,1,1,1,1,1,0,0,1>>),
       R(<<1,0,0,0,0,0,1,1,0,0,0,1>>),
       R(<<1,0,0,0,0,1,1,0,0,0,0,1>>),
       R(<<1,0,0,0,1,1,0,0,0,0,0,1>>),
       R(<<1,0,0,1,1,0,0,0,0,0,0,1>>),
       R(<<1,0,1,1,1,1,1,1,0,0,0,1>>),
       R(<<0,1,0,0,0,0,0,0,0,0,1,0>>),
       R(<<0,0,1,1,1,1,1,1,1,1,0,0>>) >>)
  @@ (<<12488>> :> <<   \* U+30C8
       R(<<0,0,1,1,1,1,1,1,1,1,0,0>>),
       R(<<0,1,0,0,0,0,0,0,0,0,1,0>>),
       R(<<1,0,0,0,1,1,1,1,0,0,0,1>>),
       R(<<1,0,0,0,0,1,1,0,0,0,0,1>>),
       R(<<1,0,0,0,0,1,1,0,0,0,0,1>>),
       R(<<1,0,0,0,0,1,1,0,0,0,0,1>>),
       R(<<1,0,0,0,0,1,1,0,0,0,0,1>>),
       R(<<1,0,0,0,1,1,1,1,0,0,0,1>>),
       R(<<0,1,0,0,0,0,0,0,0,0,1,0>>),
       R(<<0,0,1,1,1,1,1,1,1,1,0,0>>) >>)

\* "Generic pattern for unknown characters": the character sits in the fifth row
genericPattern(char) ==
  << R(<<0,0,1,1,1,1,1,1,1,1,0,0>>),
     R(<<0,1,0,0,0,0,0,0,0,0,1,0>>),
     R(<<1,0,0,0,1,1,1,1,0,0,0,1>>),
     R(<<1,0,0,1,0,0,0,0,1,0,0,1>>),
     R(<<1,0,0,1,0>>) \o char \o R(<<0,0,1,0,0,1>>),
     R(<<1,0,0,1,0,0,0,0,1,0,0,1>>),
     R(<<1,0,0,0,1,1,1,1,0,0,0,1>>),
     R(<<1,0,0,0,0,0,0,0,0,0,0,1>>),
     R(<<0,1,0,0,0,0,0,0,0,0,1,0>>),
     R(<<0,0,1,1,1,1,1,1,1,1,0,0>>) >>

getJapaneseCharPattern(char) ==
  IF char \in DOMAIN patterns THEN patterns[char] ELSE genericPattern(char)

----------------------------------------------------------------------------
(* Glyph compositor: createJapaneseArt and renderJapaneseWithJisFont *)

Thrown == [threw |-> TRUE, lines |-> <<>>]

\* a slip in the combining: the last glyph's row alone
combineRow_lastCell(cells) == cells[Len(cells)]

\* one combined row: the glyphs' rows at index row with one space between
\* neighbours; cells[i] is what glyph i gives at that index
combineRow(cells) ==
  Concat([i \in 1..Len(cells) |->
            cells[i] \o (IF i < Len(cells) THEN <<SP>> ELSE <<>>)])

\* createJapaneseArt: reading allPatterns[0].length of no pattern is a TypeError
createJapaneseArt(t) ==
  LET chars == ArrayFrom(t)
      allPatterns == [i \in 1..Len(chars) |-> getJapaneseCharPattern(chars[i])]
  IN  IF Len(allPatterns) = 0 THEN Thrown
      ELSE LET height == Len(allPatterns[1])
           IN  [threw |-> FALSE,
                lines |-> [row \in 1..height |->
                             combineRow([i \in 1..Len(allPatterns) |->
                                           allPatterns[i][row]])]]

\* the glyph string pushed for each character, and whether the font gave it
renderedChars(l, fontData, map, t) ==
  LET chars == ArrayFrom(t)
  IN  [i \in 1..Len(chars) |->
         LET result == renderJisCharacter(l, fontData, map, chars[i])
         IN  IF result # None
             THEN [font |-> TRUE, glyph |-> result[1]]
             ELSE [font |-> FALSE,
                   glyph |-> join(getJapaneseCharPattern(chars[i]), <<NL>>)]]

\* charLines[i][row] || ''
rowOrEmpty(lines, row) == IF row <= Len(lines) THEN lines[row] ELSE <<>>

\* a slip in the height: the first glyph's, as createJapaneseArt takes it
combineGlyphs_firstHeight(glyphs) ==
  LET charLines == [i \in 1..Len(glyphs) |-> split(glyphs[i], NL)]
      height == Len(charLines[1])
      combinedLines ==
        [row \in 1..height |->
           combineRow([i \in 1..Len(charLines) |->
                         rowOrEmpty(charLines[i], row)])]
  IN  join(combinedLines, <<NL>>)

\* "Combine multiple characters horizontally"
combineGlyphs(glyphs) ==
  LET charLines == [i \in 1..Len(glyphs) |-> split(glyphs[i], NL)]
      maxHeight == MaxOf([i \in 1..Len(charLines) |-> Len(charLines[i])])
      combinedLines ==
        [row \in 1..maxHeight |->
           combineRow([i \in 1..Len(charLines) |->
                         rowOrEmpty(charLines[i], row)])]
  IN  join(combinedLines, <<NL>>)

\* renderJapaneseWithJisFont: null, or the art as one string
renderJapaneseWithJisFont(l, fontData, map, t) ==
  IF isFalsy(fontData) \/ DOMAIN map = {} THEN None
  ELSE LET rendered == renderedChars(l, fontData, map, t)
           glyphs == [i \in 1..Len(rendered) |-> rendered[i].glyph]
       IN  IF Len(glyphs) = 0 THEN None
           ELSE IF Len(glyphs) = 1 THEN Some(glyphs[1])
           ELSE Some(combineGlyphs(glyphs))

----------------------------------------------------------------------------
(* Directional colorizer: renderJapaneseText *)

\* A coloured row is kept as the call that made it: fn "none" (the row passed
\* through), "gradient" (gradient(stops)(line)) or "multiline" (a row of
\* gradient(stops).multiline(art), n colours wide).
passThrough(line) == [fn |-> "none", line |-> line, stops |-> <<>>, n |-> 0]
gradientLine(stops, line) == [fn |-> "gradient", line |-> line, stops |-> stops, n |-> 0]

\* gradientFn.multiline(asciiArt): the colours span the longest row
multiline(stops, art) ==
  LET lines == split(art, NL)
      maxLength == Max2(MaxOf([i \in 1..Len(lines) |-> Len(lines[i])]), Len(stops))
  IN  [i \in 1..Len(lines) |->
         [fn |-> "multiline", line |-> lines[i], stops |-> stops, n |-> maxLength]]

\* a slip in the shift: the row index itself, not its share of the palette
shiftedPalette_byIndex(pal, index, lineCount) ==
  [c \in 1..Len(pal) |-> pal[(((c - 1) + index) % Len(pal)) + 1]]

\* the row-specific palette of the diagonal case; index and colorIndex count
\* from 0, and floor(colorIndex + (index / lineCount) * length) is taken exactly
shiftedPalette(pal, index, lineCount) ==
  [c \in 1..Len(pal) |->
     pal[((((c - 1) * lineCount + index * Len(pal)) \div lineCount) % Len(pal)) + 1]]

isBlank(line) == trim(line) = <<>>

colorize(asciiArt, pal, dir) ==
  LET lines == split(asciiArt, NL)
      lineCount == Len(lines)
  IN  IF dir = "horizontal"
      THEN [i \in 1..lineCount |->
              IF isBlank(lines[i]) THEN passThrough(lines[i]) ELSE gradientLine(pal, lines[i])]
      ELSE IF dir = "diagonal"
      THEN [i \in 1..lineCount |->
              IF isBlank(lines[i]) THEN passThrough(lines[i])
              ELSE gradientLine(shiftedPalette(pal, i - 1, lineCount), lines[i])]
      ELSE multiline(pal, asciiArt)

\* renderJapaneseText: the font path first, the patterns when it gives nothing
renderJapaneseText(l, fontData, map, t, pal, dir) ==
  LET fromFont == renderJapaneseWithJisFont(l, fontData, map, t)
      artLines == createJapaneseArt(t)
  IN  IF fromFont # None /\ fromFont # Some(<<>>)
      THEN [threw |-> FALSE, rows |-> colorize(fromFont[1], pal, dir)]
      ELSE IF artLines.threw
      THEN [threw |-> TRUE, rows |-> <<>>]
      ELSE [threw |-> FALSE, rows |-> colorize(join(artLines.lines, <<NL>>), pal, dir)]

\* What the gradient library makes of a row: one pair <<character, colour>> per
\* character (code point) of the row; <<>> is no colour, <<stops, k, n>> the k-th
\* of n colours blended over stops.  gradient(stops)(line) colours the
\* characters that are not whitespace, one colour each; multiline colours every
\* character of every row, whitespace included, by its position.
isSpaceChar(ch) == Len(ch) = 1 /\ IsWhitespace(ch[1])

RECURSIVE inkBefore(_, _)
inkBefore(chars, k) ==
  IF k <= 1 THEN 0
  ELSE inkBefore(chars, k - 1) + (IF isSpaceChar(chars[k - 1]) THEN 0 ELSE 1)

\* whether the library wraps character ch of a row in a colour
carriesColour(row, ch) ==
  row.fn = "multiline" \/ (row.fn = "gradient" /\ ~isSpaceChar(ch))

coloured(row) ==
  LET chars == ArrayFrom(row.line)
      inkCount == inkBefore(chars, Len(chars) + 1)
  IN  [k \in 1..Len(chars) |->
         IF ~carriesColour(row, chars[k]) THEN <<chars[k], <<>>>>
         ELSE IF row.fn = "gradient"
         THEN <<chars[k], <<row.stops, inkBefore(chars, k), Max2(inkCount, Len(row.stops))>>>>
         ELSE <<chars[k], <<row.stops, k - 1, row.n>>>>]

\* a row that carries no colour
plain(line) == LET chars == ArrayFrom(line) IN [k \in 1..Len(chars) |-> <<chars[k], <<>>>>]

----------------------------------------------------------------------------
(* Per-character block mode: createJapaneseBlock *)

\* stringWidth(char)
stringWidth(l, char) == l.width[char]

\* stringWidth(char) || 1
charWidthOf(l, char) == IF stringWidth(l, char) = 0 THEN 1 ELSE stringWidth(l, char)

blockWidthOf(l, char) == Max2(charWidthOf(l, char) * WidthFactor, MinBlockWidth)

\* a slip in the middle row: the odd padding cell put on the left
blockCell_padLeft(l, char, row) ==
  LET charWidth == charWidthOf(l, char)
      blockWidth == blockWidthOf(l, char)
      padding == Max2(0, blockWidth - charWidth)
      rightPad == padding \div 2
      leftPad == padding - rightPad
  IN  IF row = 0 \/ row = scale - 1 THEN repeat(INK, blockWidth)
      ELSE IF row = scale \div 2 THEN repeat(INK, leftPad) \o char \o repeat(INK, rightPad)
      ELSE <<INK>> \o repeat(SP, blockWidth - 2) \o <<INK>>

\* what one character adds to lines[row], row counted from 0
blockCell(l, char, row) ==
  LET charWidth == charWidthOf(l, char)
      blockWidth == blockWidthOf(l, char)
      padding == Max2(0, blockWidth - charWidth)
      leftPad == padding \div 2
      rightPad == padding - leftPad
  IN  IF row = 0 \/ row = scale - 1 THEN repeat(INK, blockWidth)
      ELSE IF row = scale \div 2 THEN repeat(INK, leftPad) \o char \o repeat(INK, rightPad)
      ELSE <<INK>> \o repeat(SP, blockWidth - 2) \o <<INK>>

\* the lines array when the loop over the characters ends
blockLines(l, t) ==
  LET chars == ArrayFrom(t)
  IN  [r \in 1..scale |->
         Concat([i \in 1..Len(chars) |->
                   blockCell(l, chars[i], r - 1)
                   \o (IF i < Len(chars) THEN <<SP, SP>> ELSE <<>>)])]

createJapaneseBlock(l, t) == join(blockLines(l, t), <<NL>>)

----------------------------------------------------------------------------
(* containsJapanese *)

\* a slip at the lower bound of the Hiragana block: > for >=
containsJapanese_openBound(t) ==
  LET chars == ArrayFrom(t)
  IN  \E k \in 1..Len(chars) :
        LET code == charCodeAt0(chars[k])
        IN  \/ (code > 12352 /\ code <= 12447)
            \/ (code >= 12448 /\ code <= 12543)
            \/ (code >= 19968 /\ code <= 40959)

containsJapanese(t) ==
  LET chars == ArrayFrom(t)
  IN  \E k \in 1..Len(chars) :
        LET code == charCodeAt0(chars[k])
        IN  \/ (code >= 12352 /\ code <= 12447)    \* 0x3040-0x309F Hiragana
            \/ (code >= 12448 /\ code <= 12543)    \* 0x30A0-0x30FF Katakana
            \/ (code >= 19968 /\ code <= 40959)    \* 0x4E00-0x9FFF CJK Unified Ideographs

----------------------------------------------------------------------------
(* The program: module load, then one entry point *)

RECURSIVE SeqsUpTo(_, _)
SeqsUpTo(S, n) ==
  IF n = 0 THEN {<<>>}
  ELSE LET shorter == SeqsUpTo(S, n - 1)
       IN  shorter \cup {Append(s, x) : s \in {t \in shorter : Len(t) = n - 1}, x \in S}

\* texts of at most MaxTextLen characters of the alphabet
Texts == {Concat(cs) : cs \in SeqsUpTo(Alphabet, MaxTextLen)}

\* code units on both sides of every range bound, and the two halves of a pair
DetectUnits == {65, 12351, 12352, 12543, 12544, 19967, 19968, 40959, 40960, 55360, 56331}

NoOut == [threw |-> FALSE]

Init ==
  /\ pc = "load"
  /\ fontFile \in FontFiles
  /\ jisFontData = None
  /\ jisCharacterMap = EmptyMap
  /\ op = "none"
  /\ text = <<>>
  /\ palette = <<>>
  /\ direction = "vertical"
  /\ lib = NoLib
  /\ out = NoOut

\* a call of unicodeToJisHexCode(char)
Resolve ==
  /\ pc = "ready"
  /\ \E ch \in Alphabet, outs \in [Schemes -> UNION {SchemeOutcomes(s) : s \in Schemes}] :
       /\ \A s \in Schemes : outs[s] \in SchemeOutcomes(s)
       /\ lib' = [conv |-> outs, width |-> NoWidth]
       /\ text' = ch
       /\ out' = [threw |-> FALSE, value |-> unicodeToJisHexCode(lib', jisCharacterMap, ch)]
  /\ op' = "resolve"
  /\ pc' = "done"
  /\ UNCHANGED <<fontFile, jisFontData, jisCharacterMap, palette, direction>>

\* a call of containsJapanese(text)
Detect ==
  /\ pc = "ready"
  /\ \E t \in SeqsUpTo(DetectUnits, MaxUnits) :
       /\ text' = t
       /\ out' = [threw |-> FALSE, value |-> containsJapanese(t)]
  /\ op' = "detect"
  /\ pc' = "done"
  /\ UNCHANGED <<fontFile, jisFontData, jisCharacterMap, palette, direction, lib>>

Directions == {"vertical", "horizontal", "diagonal"}

\* palettes of 2..MaxPalette distinct colour stops (a gradient wants two or more)
Palettes == {[c \in 1..n |-> c] : n \in 2..MaxPalette}

\* the conversion libraries during a rendering: every scheme converts, every
\* scheme throws, or every scheme returns too few bytes
RenderLibs ==
  {[conv |-> [s \in Schemes |-> k], width |-> NoWidth] : k \in {Table, Throws, Fixed(<<63>>)}}

\* the glyph strings a rendering composes, in order: the font's where the store
\* is usable and the character resolves, the pattern's otherwise
usedGlyphs(l, fontData, map, t) ==
  IF isFalsy(fontData) \/ DOMAIN map = {}
  THEN LET chars == ArrayFrom(t)
       IN  [i \in 1..Len(chars) |->
              [font |-> FALSE, glyph |-> join(getJapaneseCharPattern(chars[i]), <<NL>>)]]
  ELSE renderedChars(l, fontData, map, t)

\* a call of renderJapaneseText(text, palette, direction)
Render ==
  /\ pc = "ready"
  /\ \E t \in Texts, pal \in Palettes, dir \in Directions, l \in RenderLibs :
       /\ text' = t
       /\ palette' = pal
       /\ direction' = dir
       /\ lib' = l
       /\ out' = renderJapaneseText(l, jisFontData, jisCharacterMap, t, pal, dir)
  /\ op' = "render"
  /\ pc' = "done"
  /\ UNCHANGED <<fontFile, jisFontData, jisCharacterMap>>

\* string-width this run: a display width in 0..MaxCharWidth for each character
WidthTables ==
  {[ch \in Alphabet |->
      (base + (IF ch = Hiragana_A THEN 2 ELSE IF ch = Kanji_Nichi THEN 3
               ELSE IF ch = Latin_A THEN 1 ELSE 0)) % (MaxCharWidth + 1)]
   : base \in 0..MaxCharWidth}

\* a call of createJapaneseBlock(text)
Block ==
  /\ pc = "ready"
  /\ \E t \in Texts, w \in WidthTables :
       /\ text' = t
       /\ lib' = [conv |-> NoLib.conv, width |-> w]
       /\ out' = [threw |-> FALSE, value |-> createJapaneseBlock(lib', t)]
  /\ op' = "block"
  /\ pc' = "done"
  /\ UNCHANGED <<fontFile, jisFontData, jisCharacterMap, palette, direction>>

NextRender == LoadFont \/ Render
NextResolve == LoadFont \/ Resolve
NextDetect == LoadFont \/ Detect
NextBlock == LoadFont \/ Block
Next == LoadFont \/ Render \/ Resolve \/ Detect \/ Block

SpecRender == Init /\ [][NextRender]_vars
SpecResolve == Init /\ [][NextResolve]_vars
SpecDetect == Init /\ [][NextDetect]_vars
SpecBlock == Init /\ [][NextBlock]_vars
Spec == Init /\ [][Next]_vars

----------------------------------------------------------------------------
(* Properties *)

rowsOf(glyph) == split(glyph, NL)

isRectangular(rows) == \A i, j \in 1..Len(rows) : Len(rows[i]) = Len(rows[j])

rendered == op = "render" /\ ~out.threw

\* the canvas that was coloured, row by row
art == [i \in 1..Len(out.rows) |-> out.rows[i].line]

\* the glyphs that were composed, each as its rows
glyphs ==
  LET used == usedGlyphs(lib, jisFontData, jisCharacterMap, text)
  IN  [i \in 1..Len(used) |-> [font |-> used[i].font, rows |-> rowsOf(used[i].glyph)]]

\* C1: rendering the empty text never fails: renderJapaneseText("") returns an
\* empty result (no row carries a character) instead of raising, for every
\* direction and whether the font store is populated or empty.
C1_EmptyTextNeverFails ==
  (op = "render" /\ text = <<>>) =>
    (~out.threw /\ \A i \in 1..Len(out.rows) : out.rows[i].line = <<>>)

\* C2: canvas rectangularity: whenever the glyphs composed are rectangular, of
\* whatever source, height and width, every row of the composed canvas has the
\* same length.
C2_CanvasRectangular ==
  (rendered /\ \A i \in 1..Len(glyphs) : isRectangular(glyphs[i].rows))
    => isRectangular(art)

\* the codepoint scheme s yields for ch, when its conversion returns enough bytes
Candidate(s, ch) ==
  LET r == convert(lib, s, ch)
  IN  IF r.threw THEN None
      ELSE IF s = 1
      THEN (IF Len(r.bytes) >= 5 THEN Some(hexOf(r.bytes[4], r.bytes[5])) ELSE None)
      ELSE (IF Len(r.bytes) >= 2 THEN Some(hexOf(r.bytes[1], r.bytes[2])) ELSE None)

Hits(s, ch) == Candidate(s, ch) # None /\ Candidate(s, ch)[1] \in DOMAIN jisCharacterMap

\* the codepoint of the first scheme, in the order 1, 2, 3, 4, that hits
FirstHit(ch) ==
  IF \E s \in Schemes : Hits(s, ch)
  THEN Candidate(CHOOSE s \in Schemes : Hits(s, ch) /\ \A q \in 1..(s-1) : ~Hits(q, ch), ch)
  ELSE None

\* C3: the resolver tries escaped JIS, Shift-JIS, library JISX0208, library SJIS
\* in that order and returns the codepoint of the first scheme whose codepoint
\* is a key of the font store; a codepoint that is no key is a miss; with no hit
\* the result is unresolved; a codepoint returned is a key of the store.
C3_FirstHitInOrder ==
  op = "resolve" =>
    /\ out.value = FirstHit(text)
    /\ (out.value # None => out.value[1] \in DOMAIN jisCharacterMap)

\* C4: a conversion error of one scheme, the two direct schemes included, is a
\* miss of that scheme only: a later scheme that hits still resolves the
\* character, and the resolver never throws.
C4_ErrorIsMissOfOneScheme ==
  op = "resolve" =>
    /\ ~out.threw
    /\ \A s \in Schemes, q \in Schemes :
         (convert(lib, s, text).threw /\ s < q /\ Hits(q, text)) => out.value # None

\* the Unicode scalars of a UTF-16 string, a surrogate pair decoded as one
RECURSIVE ScalarsOf(_)
ScalarsOf(s) ==
  IF s = <<>> THEN {}
  ELSE IF Len(s) >= 2 /\ IsHighSurrogate(s[1]) /\ IsLowSurrogate(s[2])
       THEN {65536 + (s[1] - 55296) * 1024 + (s[2] - 56320)} \cup ScalarsOf(SubSeq(s, 3, Len(s)))
       ELSE {s[1]} \cup ScalarsOf(Tail(s))

InJapaneseRanges(x) ==
  \/ x \in 12352..12447     \* U+3040-U+309F
  \/ x \in 12448..12543     \* U+30A0-U+30FF
  \/ x \in 19968..40959     \* U+4E00-U+9FFF

\* C5: containsJapanese(text) is true exactly when some Unicode scalar of text
\* lies in U+3040-U+309F, U+30A0-U+30FF or U+4E00-U+9FFF; it is false for ASCII
\* text and for the empty string, and a surrogate pair counts as its one scalar.
C5_ContainsJapaneseByScalar ==
  op = "detect" =>
    /\ out.value = (\E x \in ScalarsOf(text) : InJapaneseRanges(x))
    /\ ((\A k \in 1..Len(text) : text[k] < 128) => ~out.value)
    /\ (text = <<>> => ~out.value)

\* C5 witness: a text holding a surrogate pair and a character of the ranges
C5_Witness ==
  /\ op = "detect"
  /\ out.value
  /\ \E k \in 1..(Len(text) - 1) : IsHighSurrogate(text[k]) /\ IsLowSurrogate(text[k + 1])


RECURSIVE SumOf(_)
SumOf(s) == IF s = <<>> THEN 0 ELSE Head(s) + SumOf(Tail(s))

\* the display width the block builder works with: stringWidth, 0 taken as 1
EffWidth(ch) == IF lib.width[ch] = 0 THEN 1 ELSE lib.width[ch]

BlockWidth(ch) == IF 3 * EffWidth(ch) >= 6 THEN 3 * EffWidth(ch) ELSE 6

\* the block the claim gives a character in row r (1..5)
ExpectedBlock(ch, r) ==
  LET bw == BlockWidth(ch)
      pad == bw - EffWidth(ch)
  IN  IF r \in {1, 5} THEN [k \in 1..bw |-> INK]
      ELSE IF r = 3
      THEN [k \in 1..(pad \div 2) |-> INK] \o ch \o [k \in 1..(pad - (pad \div 2)) |-> INK]
      ELSE <<INK>> \o [k \in 1..(bw - 2) |-> SP] \o <<INK>>

\* display width of a row of ink, blanks and characters of the text
DisplayWidth(row) ==
  LET chars == ArrayFrom(row)
      w(ch) == IF ch \in {<<INK>>, <<SP>>} THEN 1 ELSE EffWidth(ch)
      RECURSIVE sum(_)
      sum(k) == IF k = 0 THEN 0 ELSE sum(k - 1) + w(chars[k])
  IN  sum(Len(chars))

C7_DiagonalRotation ==
  (rendered /\ direction = "diagonal") =>
    LET n == Len(out.rows)
        L == Len(palette)
    IN  \A i \in 0..(n - 1) :
          ~isBlank(art[i + 1]) =>
            LET used == out.rows[i + 1].stops
                shift == (i * L) \div n
            IN  /\ out.rows[i + 1].fn = "gradient"
                /\ Len(used) = L
                /\ \A c \in 0..(L - 1) : used[c + 1] = palette[((c + shift) % L) + 1]
                /\ \E k \in 0..(L - 1) : \A c \in 0..(L - 1) : used[c + 1] = palette[((c + k) % L) + 1]
                /\ (i = 0 => used = palette)

\* C7 witness: a diagonal rendering in which some row's palette is rotated
C7_Witness ==
  /\ rendered /\ direction = "diagonal"
  /\ \E i \in 1..Len(out.rows) :
       out.rows[i].fn = "gradient" /\ out.rows[i].stops # palette

\* C8: in each direction a whitespace-only row of the canvas comes back from
\* colouring unchanged, at the same index, and the number of rows is kept.
C8_BlankRowsUnchanged ==
  rendered =>
    \A i \in 1..Len(art) : isBlank(art[i]) => coloured(out.rows[i]) = plain(art[i])

glyphWidth(g) == Len(g.rows[1])

\* C9: composing k >= 1 glyphs gives a canvas as high as the highest glyph;
\* each row is the glyphs' rows at that index, left to right, a glyph that is
\* shorter giving a blank row of its width, one space between neighbours; the
\* canvas is as wide as the glyph widths and the k-1 separators together.
C9_UniformComposition ==
  (rendered /\ Len(glyphs) >= 1 /\ \A i \in 1..Len(glyphs) : isRectangular(glyphs[i].rows)) =>
    LET k == Len(glyphs)
    IN  /\ Len(art) = MaxOf([i \in 1..k |-> Len(glyphs[i].rows)])
        /\ \A r \in 1..Len(art) :
             art[r] = Concat([i \in 1..k |->
                                (IF r <= Len(glyphs[i].rows) THEN glyphs[i].rows[r]
                                 ELSE [c \in 1..glyphWidth(glyphs[i]) |-> SP])
                                \o (IF i < k THEN <<SP>> ELSE <<>>)])
        /\ \A r \in 1..Len(art) :
             Len(art[r]) = SumOf([i \in 1..k |-> glyphWidth(glyphs[i])]) + (k - 1)

----------------------------------------------------------------------------
(* Properties of a text and the text one character longer *)

\* the text that was rendered, without its last character
allButLast ==
  LET chars == ArrayFrom(text)
  IN  Concat(SubSeq(chars, 1, Len(chars) - 1))

\* what the same call gives for that shorter text
shorter ==
  renderJapaneseText(lib, jisFontData, jisCharacterMap, allButLast, palette, direction)

\* the characters of an output, line terminators between the rows included
textLength(rows) == SumOf([i \in 1..Len(rows) |-> Len(rows[i].line)]) + (Len(rows) - 1)

\* the characters of an output that carry a colour
colourCount(rows) ==
  SumOf([i \in 1..Len(rows) |->
           LET chars == ArrayFrom(rows[i].line)
           IN  Cardinality({k \in 1..Len(chars) : carriesColour(rows[i], chars[k])})])

renderedLonger == rendered /\ Len(ArrayFrom(text)) >= 2

----------------------------------------------------------------------------
(* Properties of the font store against the resource it was parsed from *)

loaded == pc # "load" /\ jisFontData # None

\* the lines of the resource that was read
fontLines == split(readFileSync(fontFile)[1], NL)

endsWith(line, marker) ==
  Len(line) >= Len(marker)
  /\ SubSeq(line, Len(line) - Len(marker) + 1, Len(line)) = marker

\* a glyph row: it ends with the row marker and holds no end marker
isGlyphRow(line) == endsWith(line, <<DOLLAR, AT>>) /\ ~includes(line, <<AT, AT>>)

\* the last row of an entry: it ends with the end marker, its only one
isEndRow(line) ==
  /\ endsWith(line, <<DOLLAR, AT, AT>>)
  /\ ~includes(SubSeq(line, 1, Len(line) - 3), <<DOLLAR, AT>>)

\* lines i..j are a well-formed entry: header line, glyph rows, end-marker row
wellFormedEntry(lines, i, j) ==
  /\ i < j
  /\ matchHeader(lines[i])
  /\ \A k \in (i + 1)..(j - 1) : isGlyphRow(lines[k])
  /\ isEndRow(lines[j])

\* the glyph such an entry describes: its rows without their markers, ink cells
\* for the font's ink marker
entryGlyph(lines, i, j) ==
  join([k \in 1..(j - i) |->
          LET row == lines[i + k]
              body == SubSeq(row, 1, Len(row) - (IF i + k = j THEN 3 ELSE 2))
          IN  [c \in 1..Len(body) |-> IF body[c] = HASH THEN INK ELSE body[c]]],
       <<NL>>)

\* the hex codes of the header lines after line i
laterCodes(lines, i) ==
  {toLowerCase(matchHex(lines[k])) : k \in {k \in (i + 1)..Len(lines) : matchHeader(lines[k])}}

\* C12: font parsing tolerates malformed lines: every well-formed entry of the
\* resource (header line, rows, end-marker row), whatever malformed lines come
\* before it, is stored as its own glyph under its own lowercase hex code with
\* exactly its own rows.
C12_MalformedLinesSkipped ==
  loaded =>
    LET lines == fontLines
    IN  \A i \in 1..Len(lines), j \in 1..Len(lines) :
          (wellFormedEntry(lines, i, j)
           /\ toLowerCase(matchHex(lines[i])) \notin laterCodes(lines, i)) =>
            LET hexCode == toLowerCase(matchHex(lines[i]))
            IN  /\ hexCode \in DOMAIN jisCharacterMap
                /\ jisCharacterMap[hexCode] = entryGlyph(lines, i, j)

\* a hex code brought to the normal form: lower case, four digits, zeros added
\* or dropped at the front
RECURSIVE dropZeros(_)
dropZeros(h) == IF Len(h) > HexPad /\ Head(h) = 48 THEN dropZeros(Tail(h)) ELSE h

normalHex(h) == padStart(toLowerCase(dropZeros(h)), HexPad, 48)

isNormalHex(h) ==
  Len(h) = HexPad /\ \A k \in 1..Len(h) : IsDigit(h[k]) \/ (h[k] >= 97 /\ h[k] <= 102)

\* the header hex codes of the well-formed entries of the resource
entryCodes ==
  LET lines == fontLines
  IN  {matchHex(lines[i]) :
         i \in {i \in 1..Len(lines) : \E j \in 1..Len(lines) : wellFormedEntry(lines, i, j)}}

\* C13: every key of the font store and every codepoint the resolver looks up
\* is a lowercase hex string of 4 digits, zero-padded; so an entry whose header
\* hex code differs from a conversion's codepoint in letter case or leading
\* zeros only is a hit for that codepoint.
C13_CodepointsNormalised ==
  (op = "resolve" /\ loaded) =>
    LET codes == entryCodes
    IN  /\ \A key \in DOMAIN jisCharacterMap : isNormalHex(key)
        /\ \A s \in Schemes :
             Candidate(s, text) # None =>
               /\ isNormalHex(Candidate(s, text)[1])
               /\ (\E h \in codes : normalHex(h) = Candidate(s, text)[1]) => Hits(s, text)
====
